---------------------------- MODULE Spec2Model ----------------------------
(***************************************************************************)
(* Model of BuildSystem/common/license_scanner.py: the SPDX lookup table,  *)
(* the GitHub lookup adapter, the scanners and the aggregation driver.     *)
(*                                                                         *)
(* Python values are modelled as follows.                                  *)
(*   str          a sequence of one-character strings                      *)
(*   None | x     a sequence of length at most one: <<>> is None, <<x>> x  *)
(*   dict         a function (SPDX tables, the GitHub cache) or, where the *)
(*                insertion order is read back (licenses, lics), the       *)
(*                sequence of its values in insertion order                *)
(*   a call that may raise   a record with a field "raised"                *)
(***************************************************************************)
EXTENDS Integers, Sequences, FiniteSets, TLC

VARIABLES
    pc,          \* position of the driver (or of the harness of one component)
    env,         \* the inputs of the run: files, manifests, catalog, search text
    licenses,    \* _main's shared mapping `licenses`
    newLicenses, \* the scan result _adjust_and_add_new_licenses still has to merge
    github,      \* Scanner._github: [cached, remaining]
    net,         \* ghost: the network requests made so far
    fs,          \* the Dependencies directory and the report file
    last,        \* ghost: what the last operation was given and returned
    calls        \* ghost: the should_scan and scan calls made so far, in order

vars == <<pc, env, licenses, newLicenses, github, net, fs, last, calls>>

----------------------------------------------------------------------------
(* Python values *)

None == <<>>
Some(x) == <<x>>
IsNone(v) == v = <<>>

\* bool(v) of a str | None value
TruthyStr(v) == v # None /\ v[1] # <<>>

\* s.startswith(p), s.endswith(p) and the slices used with them
StartsWith(s, p) == Len(s) >= Len(p) /\ SubSeq(s, 1, Len(p)) = p
EndsWith(s, p) == Len(s) >= Len(p) /\ SubSeq(s, Len(s) - Len(p) + 1, Len(s)) = p
DropFirst(s, n) == SubSeq(s, n + 1, Len(s))
DropLast(s, n) == SubSeq(s, 1, Len(s) - n)

Range(f) == {f[i] : i \in DOMAIN f}

----------------------------------------------------------------------------
(* String literals of the program and of the inputs *)

s_empty == <<>>
s_spdx == <<"s", "p", "d", "x">>
s_Unknown == <<"U", "n", "k", "n", "o", "w", "n">>
s_spdxBSD3 == <<"s", "p", "d", "x", "B", "S", "D", "3">>
s_BSD3Clause == <<"B", "S", "D", "-", "3", "-", "C", "l", "a", "u", "s", "e">>
s_Apache2 == <<"A", "p", "a", "c", "h", "e", "-", "2">>
s_Apache20 == <<"A", "p", "a", "c", "h", "e", "-", "2", ".", "0">>
s_MIT == <<"M", "I", "T">>
s_MITLicense == <<"M", "I", "T", " ", "L", "i", "c", "e", "n", "s", "e">>
s_BSD3Name == <<"B", "S", "D", " ", "3">>
s_ApacheName == <<"A", "p", "a", "c", "h", "e", " ", "2">>
s_JSON == <<"J", "S", "O", "N">>
s_JSONLicense == <<"J", "S", "O", "N", " ", "L">>
s_X11 == <<"X", "1", "1">>
s_spdxMIT == <<"s", "p", "d", "x", "M", "I", "T">>
s_spdxGPL == <<"s", "p", "d", "x", "G", "P", "L">>
s_spd == <<"s", "p", "d">>
s_mit == <<"m", "i", "t">>
s_Custom == <<"C", "u", "s", "t", "o", "m">>
s_app == <<"a", "p", "p">>
s_bar == <<"b", "a", "r">>
s_foo == <<"f", "o", "o">>
s_pkg == <<"p", "k", "g">>
s_dep == <<"d", "e", "p">>
s_dl == <<"d", "l">>
s_v1 == <<"1", ".", "2">>
s_v2 == <<"2", ".", "0">>
s_rev == <<"a", "b", "c", "1">>
s_dash == <<"-">>
s_tar_gz == <<".", "t", "a", "r", ".", "g", "z">>
s_LICENSE == <<"L", "I", "C", "E", "N", "S", "E">>
s_license_txt == <<"l", "i", "c", "e", "n", "s", "e", ".", "t", "x", "t">>
s_README == <<"R", "E", "A", "D", "M", "E">>
s_None == <<"N", "o", "n", "e">>
s_UNKNOWN == <<"U", "N", "K", "N", "O", "W", "N">>
s_slash == <<"/">>
s_dotgit == <<".", "g", "i", "t">>
s_github_com == <<"g", "i", "t", "h", "u", "b", ".", "c", "o", "m">>
s_x_org == <<"x", ".", "o", "r", "g">>
s_kss == <<"k", "s", "s">>
s_bob == <<"b", "o", "b">>
s_lib == <<"l", "i", "b">>
s_zed == <<"z", "e", "d">>

----------------------------------------------------------------------------
(* class _SPDX *)

\* One element of the 'licenses' array of spdx-licenses.json
SpdxLic(id, name, osi) == [licenseId |-> id, name |-> name, isOsiApproved |-> osi]

\* The greatest index of a non-empty set of indices
MaxIndex(hits) == CHOOSE i \in hits : \A j \in hits : j <= i

\* _SPDX.__init__: entries[licenseId] = lic and name_map[name] = licenseId,
\* a later element of the file overwriting an earlier one with the same key.
SPDX_init(file) ==
    LET ids == {file[i].licenseId : i \in DOMAIN file}
        names == {file[i].name : i \in DOMAIN file}
        LastWithId(id) == MaxIndex({i \in DOMAIN file : file[i].licenseId = id})
        LastWithName(n) == MaxIndex({i \in DOMAIN file : file[i].name = n})
    IN [entries |-> [id \in ids |-> file[LastWithId(id)]],
        name_map |-> [n \in names |-> file[LastWithName(n)].licenseId]]

\* _SPDX._ninka_fallbacks
ninka_fallbacks ==
    (s_spdxBSD3 :> s_BSD3Clause) @@ (s_Apache2 :> s_Apache20)

\* dict.get(key, None) for a key that may be None
DictGet(d, key) ==
    IF key # None /\ key[1] \in DOMAIN d THEN Some(d[key[1]]) ELSE None

\* _SPDX.get_entry
get_entry(spdx, licenseid) == DictGet(spdx.entries, licenseid)

\* _SPDX._try_name_search
try_name_search(spdx, name) ==
    LET licenseid == DictGet(spdx.name_map, name)
    IN IF TruthyStr(licenseid) THEN get_entry(spdx, licenseid) ELSE None

\* _SPDX._try_ninka_overrides: name.startswith raises AttributeError on None
try_ninka_overrides(spdx, name) ==
    LET licenseid == DictGet(ninka_fallbacks, name)
    IN IF TruthyStr(licenseid)
       THEN [raised |-> FALSE, entry |-> get_entry(spdx, licenseid)]
       ELSE IF name = None
            THEN [raised |-> TRUE, entry |-> None]
            ELSE IF StartsWith(name[1], s_spdx)
                 THEN [raised |-> FALSE,
                       entry |-> get_entry(spdx, Some(DropFirst(name[1], 4)))]
                 ELSE [raised |-> FALSE, entry |-> None]

\* _SPDX.search
search(spdx, srch) ==
    LET byId == get_entry(spdx, srch)
        byName == try_name_search(spdx, srch)
    IN IF byId # None THEN [raised |-> FALSE, entry |-> byId]
       ELSE IF byName # None THEN [raised |-> FALSE, entry |-> byName]
       ELSE try_ninka_overrides(spdx, srch)

----------------------------------------------------------------------------
(* class _GitHubAPI *)

\* urllib.parse.urlparse(url) as far as the program reads it: netloc and path.
\* The empty string parses to EmptyUrl.
Url(netloc, path) == [netloc |-> netloc, path |-> path]
EmptyUrl == Url(s_empty, s_empty)

\* str.split(sep) for a one-character separator
RECURSIVE SplitFrom(_, _, _, _)
SplitFrom(s, sep, i, cur) ==
    IF i > Len(s) THEN <<cur>>
    ELSE IF s[i] = sep THEN <<cur>> \o SplitFrom(s, sep, i + 1, <<>>)
    ELSE SplitFrom(s, sep, i + 1, Append(cur, s[i]))

Split(s, sep) == SplitFrom(s, sep, 1, <<>>)

\* _GitHubAPI._parse_url: the first two non-empty parts of the path
parse_url(url) ==
    IF url = None \/ url[1] = EmptyUrl
    THEN [host |-> None, organization |-> None, project |-> None]
    ELSE LET parts == SelectSeq(Split(url[1].path, "/"), LAMBDA part : part # <<>>)
         IN [host |-> Some(url[1].netloc),
             organization |-> IF Len(parts) >= 1 THEN Some(parts[1]) ELSE None,
             project |-> IF Len(parts) >= 2 THEN Some(parts[2]) ELSE None]

\* One repository of a listing. license: the key is absent, null, or an object
\* whose spdx_id is a string or null.
Repo(name, license) == [name |-> name, license |-> license]
LicAbsent == [kind |-> "absent", spdx_id |-> None]
LicNull == [kind |-> "null", spdx_id |-> None]
LicObj(id) == [kind |-> "dict", spdx_id |-> id]

\* _GitHubAPI._license_from_entry: the first repository of that name decides;
\* lic.get raises AttributeError when its 'license' is null.
license_from_entry(projects, project_name) ==
    LET hits == {i \in DOMAIN projects : projects[i].name = project_name}
    IN IF hits = {} THEN [raised |-> FALSE, val |-> None]
       ELSE LET project == projects[CHOOSE i \in hits : \A j \in hits : i <= j]
            IN IF project.license.kind = "null"
               THEN [raised |-> TRUE, val |-> None]
               ELSE [raised |-> FALSE, val |-> project.license.spdx_id]

\* _GitHubAPI.__init__
GitHubAPI_init == [cached |-> <<>>, remaining |-> -1]

\* _GitHubAPI._can_call_github. rate: what GET /rate_limit gives if it is
\* requested, None when the request or the reading of rate.remaining raises.
can_call_github_Refetch(gh, rate) ==
    IF rate = None
    THEN [gh |-> gh, ok |-> FALSE, rate |-> 1, rateOk |-> 0]
    ELSE [gh |-> [gh EXCEPT !.remaining = IF rate[1] > 0 THEN rate[1] - 1 ELSE rate[1]],
          ok |-> rate[1] > 0, rate |-> 1, rateOk |-> 1]

can_call_github_NoBudget(gh, rate) ==
    LET fetch == gh.remaining = -1
        remaining == IF fetch /\ rate # None THEN rate[1] ELSE gh.remaining
    IN IF fetch /\ rate = None
       THEN [gh |-> gh, ok |-> FALSE, rate |-> 1, rateOk |-> 0]
       ELSE [gh |-> [gh EXCEPT !.remaining = remaining],
             ok |-> TRUE,
             rate |-> IF fetch THEN 1 ELSE 0, rateOk |-> IF fetch THEN 1 ELSE 0]

can_call_github(gh, rate) ==
    LET fetch == gh.remaining = -1
        remaining == IF fetch /\ rate # None THEN rate[1] ELSE gh.remaining
    IN IF fetch /\ rate = None
       THEN [gh |-> gh, ok |-> FALSE, rate |-> 1, rateOk |-> 0]
       ELSE [gh |-> [gh EXCEPT !.remaining =
                        IF remaining > 0 THEN remaining - 1 ELSE remaining],
             ok |-> remaining > 0,
             rate |-> IF fetch THEN 1 ELSE 0, rateOk |-> IF fetch THEN 1 ELSE 0]

\* _GitHubAPI._try_api. repos: what GET /<key>/<organization>/repos gives if
\* it is requested, None when _get raises. c: what _can_call_github returned.
try_api_called(c, repos) ==
    [gh |-> c.gh,
     projects |-> IF c.ok THEN repos ELSE None,
     rate |-> c.rate, rateOk |-> c.rateOk,
     repos |-> IF c.ok THEN 1 ELSE 0]

try_api(gh, rate, repos) == try_api_called(can_call_github(gh, rate), repos)

\* The requests of two _try_api calls counted together
AfterBoth(a, b) ==
    [b EXCEPT !.rate = a.rate + b.rate,
              !.rateOk = a.rateOk + b.rateOk,
              !.repos = a.repos + b.repos]

\* lookup, lines 183-185: the 'orgs' request (a: what it returned) and, when
\* it gave nothing, the 'users' request. o: the answers the network would give.
fetch_users(a, o) ==
    IF a.projects # None THEN a
    ELSE AfterBoth(a, try_api(a.gh, o.rate2, o.users))

fetch_projects(gh, o) == fetch_users(try_api(gh, o.rate1, o.orgs), o)

LookupResult(gh, raised, val, rate, rateOk, repos, fromCache) ==
    [gh |-> gh, raised |-> raised, val |-> val,
     rate |-> rate, rateOk |-> rateOk, repos |-> repos, fromCache |-> fromCache]

\* lookup, line 180: the answer from the cached listing (l: what
\* _license_from_entry returned)
lookup_cached(gh, l) == LookupResult(gh, l.raised, l.val, 0, 0, 0, TRUE)

\* lookup, lines 186-189: the listing fetched (f: what the requests gave) is
\* cached before it is searched
lookup_fetched(f, organization, project) ==
    IF f.projects # None
    THEN [lookup_cached([f.gh EXCEPT !.cached = (organization :> f.projects[1]) @@ @],
                        license_from_entry(f.projects[1], project))
            EXCEPT !.rate = f.rate, !.rateOk = f.rateOk, !.repos = f.repos,
                   !.fromCache = FALSE]
    ELSE LookupResult(f.gh, FALSE, None, f.rate, f.rateOk, f.repos, FALSE)

\* lookup, lines 179-189
lookup_project_NoCache(gh, host, organization, project, o) ==
    IF host = Some(s_github_com)
    THEN lookup_fetched(fetch_projects(gh, o), organization, project)
    ELSE LookupResult(gh, FALSE, None, 0, 0, 0, FALSE)

lookup_project(gh, host, organization, project, o) ==
    IF organization \in DOMAIN gh.cached
    THEN lookup_cached(gh, license_from_entry(gh.cached[organization], project))
    ELSE IF host = Some(s_github_com)
    THEN lookup_fetched(fetch_projects(gh, o), organization, project)
    ELSE LookupResult(gh, FALSE, None, 0, 0, 0, FALSE)

\* lookup, lines 177-178: project.endswith raises AttributeError when the URL
\* has no second path part (p: what _parse_url returned)
lookup_parsed(gh, p, o) ==
    IF p.project = None
    THEN LookupResult(gh, TRUE, None, 0, 0, 0, FALSE)
    ELSE lookup_project(gh, p.host, p.organization[1],
                        IF EndsWith(p.project[1], s_dotgit)
                        THEN DropLast(p.project[1], 4) ELSE p.project[1],
                        o)

\* _GitHubAPI.lookup
lookup(gh, url, o) == lookup_parsed(gh, parse_url(url), o)

----------------------------------------------------------------------------
(* Order of strings *)

\* The characters of the model's strings in code point order
Alphabet ==
    <<" ", "-", ".", "/", "0", "1", "2", "3",
      "A", "B", "C", "D", "E", "G", "I", "J", "K", "L", "M", "N", "O", "P",
      "R", "S", "T", "U", "W", "X",
      "a", "b", "c", "d", "e", "f", "g", "h", "i", "k", "l", "m", "n", "o",
      "p", "r", "s", "t", "u", "w", "x", "z">>

ord(c) == CHOOSE i \in DOMAIN Alphabet : Alphabet[i] = c

\* a < b for two str values
StrLess(a, b) ==
    \E i \in 1..(Len(a) + 1) :
        /\ i <= Len(b)
        /\ SubSeq(a, 1, i - 1) = SubSeq(b, 1, i - 1)
        /\ (i = Len(a) + 1 \/ ord(a[i]) < ord(b[i]))

\* bisect.bisect_right(a, x, lo, hi): the binary search itself, so that its
\* answer on a list that is not sorted is the one Python gives
RECURSIVE bisect_right(_, _, _, _)
bisect_right(a, x, lo, hi) ==
    IF lo < hi
    THEN LET mid == (lo + hi) \div 2
         IN IF StrLess(x, a[mid + 1])
            THEN bisect_right(a, x, lo, mid)
            ELSE bisect_right(a, x, mid + 1, hi)
    ELSE lo

InsertAt(a, i, x) == SubSeq(a, 1, i) \o <<x>> \o SubSeq(a, i + 1, Len(a))

\* bisect.insort(a, x)
insort(a, x) == InsertAt(a, bisect_right(a, x, 0, Len(a)), x)

----------------------------------------------------------------------------
(* License entries and the mappings keyed by moduleName *)

\* A key of a dict is absent (<<>>) or present with a value (<<value>>)
Absent == <<>>
Present(v) == <<v>>

\* One license entry. moduleLicense, moduleVersion: str | None; moduleUrl:
\* a URL | None; x_usedBy: a list of str.
Lic(name, license, version, url, spdxId, osi, usedBy, manual) ==
    [moduleName |-> name, moduleLicense |-> license, moduleVersion |-> version,
     moduleUrl |-> url, x_spdxId |-> spdxId, x_isOsiApproved |-> osi,
     x_usedBy |-> usedBy, x_manuallyEdited |-> manual]

\* key in d, d[key] and d[key] = lic for a dict keyed by moduleName that keeps
\* its insertion order
Keys(d) == [i \in DOMAIN d |-> d[i].moduleName]
HasKey(d, key) == \E i \in DOMAIN d : d[i].moduleName = key
IndexOf(d, key) == CHOOSE i \in DOMAIN d : d[i].moduleName = key
Item(d, key) == d[IndexOf(d, key)]

SetItem(d, lic) ==
    IF HasKey(d, lic.moduleName)
    THEN [d EXCEPT ![IndexOf(d, lic.moduleName)] = lic]
    ELSE Append(d, lic)

\* Scanner.ensure_used_by
ensure_used_by_Append(modulename, lic) ==
    IF lic.x_usedBy # Absent
    THEN [lic EXCEPT !.x_usedBy = Present(Append(lic.x_usedBy[1], modulename))]
    ELSE [lic EXCEPT !.x_usedBy = Present(<<modulename>>)]

ensure_used_by(modulename, lic) ==
    IF lic.x_usedBy # Absent
    THEN IF modulename \in Range(lic.x_usedBy[1]) THEN lic
         ELSE [lic EXCEPT !.x_usedBy = Present(insort(lic.x_usedBy[1], modulename))]
    ELSE [lic EXCEPT !.x_usedBy = Present(<<modulename>>)]

\* Scanner._should_add_to_used_by
should_add_to_used_by(lic) == lic.x_usedBy = Absent

\* _SPDX.set_into_license
set_into_license(entry, lic) ==
    [lic EXCEPT !.moduleLicense = Present(Some(entry.name)),
                !.x_spdxId = Present(entry.licenseId),
                !.x_isOsiApproved = Present(entry.isOsiApproved)]

\* lic.get(key, None)
GetOrNone(field) == IF field = Absent THEN None ELSE field[1]

----------------------------------------------------------------------------
(* Scanner._adjust_and_add_new_licenses *)

MergeResult(lics, gh, raised, searched, l) ==
    [licenses |-> lics, gh |-> gh, raised |-> raised, searched |-> searched,
     lookedUp |-> l # None,
     rate |-> IF l = None THEN 0 ELSE l[1].rate,
     rateOk |-> IF l = None THEN 0 ELSE l[1].rateOk,
     repos |-> IF l = None THEN 0 ELSE l[1].repos]

\* The else branch of the loop body: the entry is new. lic['moduleLicense']
\* raises KeyError when the key is absent.
add_new_license(spdx, modulename, lic, lics, gh, o) ==
    LET lic1 == IF should_add_to_used_by(lic)
                THEN ensure_used_by(modulename, lic) ELSE lic
        s == search(spdx, lic1.moduleLicense[1])
        l == lookup(gh, GetOrNone(lic1.moduleUrl), o)
        byId == get_entry(spdx, l.val)
    IN IF lic1.moduleLicense = Absent
       THEN MergeResult(lics, gh, TRUE, FALSE, None)
       ELSE IF s.raised
       THEN MergeResult(lics, gh, TRUE, TRUE, None)
       ELSE IF s.entry # None
       THEN MergeResult(SetItem(lics, set_into_license(s.entry[1], lic1)),
                        gh, FALSE, TRUE, None)
       ELSE IF l.raised
       THEN MergeResult(lics, l.gh, TRUE, TRUE, Some(l))
       ELSE IF TruthyStr(l.val) /\ byId # None
       THEN MergeResult(SetItem(lics, set_into_license(byId[1], lic1)),
                        l.gh, FALSE, TRUE, Some(l))
       ELSE MergeResult(SetItem(lics, lic1), l.gh, FALSE, TRUE, Some(l))

\* One iteration of the loop of _adjust_and_add_new_licenses
adjust_and_add_Overwrite(spdx, modulename, lic, lics, gh, o) ==
    add_new_license(spdx, modulename, lic, lics, gh, o)

adjust_and_add_new_license(spdx, modulename, lic, lics, gh, o) ==
    LET key == lic.moduleName
    IN IF HasKey(lics, key)
       THEN IF should_add_to_used_by(lic)
            THEN MergeResult(SetItem(lics, ensure_used_by(modulename, Item(lics, key))),
                             gh, FALSE, FALSE, None)
            ELSE MergeResult(lics, gh, FALSE, FALSE, None)
       ELSE add_new_license(spdx, modulename, lic, lics, gh, o)

----------------------------------------------------------------------------
(* class ManuallyEditedScanner *)

\* should_scan: the entries of the report file flagged x-manuallyEdited
\* (self._entries stays None when there is no report file)
manual_entries(report) ==
    IF report = None THEN None
    ELSE Some(SelectSeq(report[1], LAMBDA dep : dep.x_manuallyEdited))

manual_should_scan(report) ==
    manual_entries(report) # None /\ manual_entries(report)[1] # <<>>

\* scan
manual_scan(report) == manual_entries(report)[1]

----------------------------------------------------------------------------
(* class DirectoryBasedScanner *)

\* One prerequisite of get_project_list. directory: the last component of the
\* directory path, or None.
Prereq(name, version, directory, url) ==
    [name |-> name, version |-> version, directory |-> directory, url |-> url]

\* What the file system holds at a directory. listing: os.listdir in its
\* order, each entry a file or not; ninka: what ninka answers for its license
\* file; nested: the dependencies of its Dependencies/prereqs-licenses.json;
\* revision: the contents of its REVISION file.
Dir(isdir, listing, ninka, nested, revision) ==
    [isdir |-> isdir, listing |-> listing, ninka |-> ninka,
     nested |-> nested, revision |-> revision]
File(name) == [name |-> name, isfile |-> TRUE]
Folder(name) == [name |-> name, isfile |-> FALSE]
NoDir == Dir(FALSE, <<>>, s_empty, None, None)

DirAt(dirs, directory) ==
    IF directory # None /\ directory[1] \in DOMAIN dirs THEN dirs[directory[1]] ELSE NoDir

\* str.upper() on the letters of the model's file names
LowerCase == <<"a", "b", "c", "d", "e", "f", "g", "h", "i", "k", "l", "m", "n",
               "o", "p", "r", "s", "t", "u", "w", "x", "z">>
UpperCase == <<"A", "B", "C", "D", "E", "F", "G", "H", "I", "K", "L", "M", "N",
               "O", "P", "R", "S", "T", "U", "W", "X", "Z">>
upper(s) ==
    [i \in DOMAIN s |->
        IF \E k \in DOMAIN LowerCase : LowerCase[k] = s[i]
        THEN UpperCase[CHOOSE k \in DOMAIN LowerCase : LowerCase[k] = s[i]]
        ELSE s[i]]

\* _get_license_filename: the first entry whose upper-cased name starts with
\* LICENSE; None when there is none or the directory does not exist
get_license_filename(dir) ==
    LET hits == {i \in DOMAIN dir.listing :
                    StartsWith(upper(dir.listing[i].name), s_LICENSE)}
    IN IF ~dir.isdir \/ hits = {} THEN None
       ELSE Some(dir.listing[CHOOSE i \in hits : \A j \in hits : i <= j].name)

\* os.path.isfile("%s/%s" % (directory, name))
IsFileIn(dir, name) ==
    dir.isdir /\ \E i \in DOMAIN dir.listing :
                    dir.listing[i].name = name /\ dir.listing[i].isfile

\* Scanner.guess_license_with_ninka, given what ninka printed
guess_license_with_ninka(spdx, licensetype) ==
    LET entry == search(spdx, Some(licensetype)).entry
    IN IF entry # None THEN entry[1].name ELSE licensetype

\* _details_for_prereq, the 'license' it finds. "%s/%s" formats a None file
\* name as the text None.
details_license(spdx, dir, directory) ==
    LET found == get_license_filename(dir)
        filename == IF found = None THEN s_None ELSE found[1]
    IN IF directory # None /\ dir.isdir /\ IsFileIn(dir, filename)
       THEN guess_license_with_ninka(spdx, dir.ninka)
       ELSE s_Unknown

\* _license_from_details
license_from_details(name, version, url, license) ==
    Lic(name,
        Present(Some(IF license = s_empty THEN s_Unknown ELSE license)),
        IF TruthyStr(version) THEN Present(version) ELSE Absent,
        IF url # None /\ url[1] # EmptyUrl THEN Present(url) ELSE Absent,
        Absent, Absent, Absent, FALSE)

\* The loop of _process_prereq over the nested report
RECURSIVE add_other_licenses(_, _, _, _)
add_other_licenses(name, others, i, lics) ==
    IF i > Len(others) THEN lics
    ELSE LET lic == others[i]
         IN add_other_licenses(name, others, i + 1,
                IF HasKey(lics, lic.moduleName)
                THEN SetItem(lics, ensure_used_by(name, Item(lics, lic.moduleName)))
                ELSE SetItem(lics, lic))

\* _process_prereq: raised when its assertion fails
process_prereq(spdx, dirs, prereq, lics) ==
    LET dir == DirAt(dirs, prereq.directory)
        others == IF dir.nested # None THEN dir.nested[1] ELSE <<>>
        lics1 == add_other_licenses(prereq.name, others, 1, lics)
        lic == license_from_details(prereq.name, prereq.version, prereq.url,
                                    details_license(spdx, dir, prereq.directory))
    IN IF HasKey(lics1, lic.moduleName)
       THEN [lics |-> lics1, raised |-> TRUE]
       ELSE [lics |-> SetItem(lics1, lic), raised |-> FALSE]

\* DirectoryBasedScanner.scan: the loop over the project list
RECURSIVE directory_scan(_, _, _, _, _)
directory_scan(spdx, dirs, entries, i, lics) ==
    IF i > Len(entries) THEN [lics |-> lics, raised |-> FALSE]
    ELSE LET r == process_prereq(spdx, dirs, entries[i], lics)
         IN IF r.raised THEN r
            ELSE directory_scan(spdx, dirs, entries, i + 1, r.lics)

----------------------------------------------------------------------------
(* class KSSPrereqScanner *)

\* One element of Dependencies/prereqs.json: each key is absent (None) or
\* holds its value
ManifestEntry(git, tarball, filename, pip) ==
    [git |-> git, tarball |-> tarball, filename |-> filename, pip |-> pip]

\* os.path.basename
basename(path) == LET parts == Split(path, "/") IN parts[Len(parts)]

\* str.rsplit('-', 1)
SplitFirstDash_Last(s) ==
    LET hits == {i \in DOMAIN s : s[i] = "-"}
    IN IF hits = {} THEN <<s>>
       ELSE LET k == CHOOSE i \in hits : \A j \in hits : i >= j
            IN <<SubSeq(s, 1, k - 1), SubSeq(s, k + 1, Len(s))>>

\* str.split('-', 1)
SplitFirstDash(s) ==
    LET hits == {i \in DOMAIN s : s[i] = "-"}
    IN IF hits = {} THEN <<s>>
       ELSE LET k == CHOOSE i \in hits : \A j \in hits : i <= j
            IN <<SubSeq(s, 1, k - 1), SubSeq(s, k + 1, Len(s))>>

\* KSSPrereqScanner.should_scan
kss_should_scan(manifest) == manifest # None

\* KSSPrereqScanner._prereq_for_git_entry
prereq_for_git_entry(dirs, entry) ==
    LET url == entry.git[1]
        base == basename(url.path)
        name == IF EndsWith(base, s_dotgit) THEN DropLast(base, 4) ELSE base
    IN Prereq(name, DirAt(dirs, Some(name)).revision, Some(name), Some(url))

\* KSSPrereqScanner._parse_tarball_name
parse_tarball_name(filename) ==
    LET name == IF EndsWith(filename, s_tar_gz) THEN DropLast(filename, 7) ELSE filename
        parts == SplitFirstDash(name)
    IN [name |-> parts[1],
        version |-> IF Len(parts) = 1 THEN None ELSE Some(parts[2]),
        directory |-> name]

\* KSSPrereqScanner._prereq_for_tarball_entry
prereq_for_tarball_entry(entry) ==
    LET url == entry.tarball[1]
        filename == IF TruthyStr(entry.filename) THEN entry.filename[1]
                    ELSE basename(url.path)
        parsed == parse_tarball_name(filename)
    IN Prereq(parsed.name, parsed.version, Some(parsed.directory), Some(url))

\* KSSPrereqScanner.get_project_list
RECURSIVE kss_get_project_list(_, _, _)
kss_get_project_list(dirs, manifest, i) ==
    IF i > Len(manifest) THEN <<>>
    ELSE (IF manifest[i].git # None
          THEN <<prereq_for_git_entry(dirs, manifest[i])>> ELSE <<>>)
         \o (IF manifest[i].tarball # None
             THEN <<prereq_for_tarball_entry(manifest[i])>> ELSE <<>>)
         \o kss_get_project_list(dirs, manifest, i + 1)

----------------------------------------------------------------------------
(* class SwiftModuleScanner *)

\* One pin of a Package.resolved file
Pin(package, version, repositoryURL) ==
    [package |-> package, version |-> version, repositoryURL |-> repositoryURL]

\* The permutation sorted(..., key=...) applies to a list with these keys:
\* by key, and by position among equal keys
SortPerm(keys) ==
    LET Before(j, i) == StrLess(keys[j], keys[i]) \/ (keys[j] = keys[i] /\ j < i)
        Rank(i) == 1 + Cardinality({j \in DOMAIN keys : Before(j, i)})
    IN [k \in DOMAIN keys |-> CHOOSE i \in DOMAIN keys : Rank(i) = k]

\* SwiftModuleScanner.should_scan
swift_should_scan(files) == files # <<>>

\* SwiftModuleScanner._get_project_directory: a directory of that name found
\* under DerivedData, or None
get_project_directory(dirs, name) ==
    IF name \in DOMAIN dirs /\ dirs[name].isdir THEN Some(name) ELSE None

\* SwiftModuleScanner._get_entries_for_xcode_package_dependency_file
swift_entries(dirs, file) ==
    [i \in DOMAIN file |->
        Prereq(file[i].package, file[i].version,
               get_project_directory(dirs, file[i].package),
               file[i].repositoryURL)]

\* SwiftModuleScanner.get_project_list: the first entry of each name, sorted
\* by name
RECURSIVE Concat(_)
Concat(seqs) == IF seqs = <<>> THEN <<>> ELSE Head(seqs) \o Concat(Tail(seqs))

swift_get_project_list(dirs, files) ==
    LET all == Concat([f \in DOMAIN files |-> swift_entries(dirs, files[f])])
        first == {i \in DOMAIN all : \A j \in 1..(i - 1) : all[j].name # all[i].name}
        projects == SelectSeq([i \in DOMAIN all |-> [e |-> all[i], keep |-> i \in first]],
                              LAMBDA x : x.keep)
        perm == SortPerm([i \in DOMAIN projects |-> projects[i].e.name])
    IN [k \in DOMAIN projects |-> projects[perm[k]].e]

----------------------------------------------------------------------------
(* class PipScanner *)

\* What `python3 -m pip show` gives for one package, as _get_pip_module_details
\* reads it: no line at all (empty), or the keys with a value. licenseFile:
\* what ninka answers for the license file _get_pip_license_filename finds in
\* the package's dist-info directory, None when it finds none.
PipDetails(requires, license, version, homepage, licenseFile) ==
    [empty |-> FALSE, Requires |-> requires, License |-> license,
     Version |-> version, HomePage |-> homepage, licenseFile |-> licenseFile]
NoPipDetails ==
    [empty |-> TRUE, Requires |-> <<>>, License |-> None,
     Version |-> None, HomePage |-> None, licenseFile |-> None]

get_pip_module_details(pips, pip) ==
    IF pip \in DOMAIN pips THEN pips[pip] ELSE NoPipDetails

\* PipScanner._load_pip_prerequisites
load_pip_prerequisites(manifest) ==
    LET withPip == SelectSeq(manifest, LAMBDA entry : entry.pip # None)
    IN [i \in DOMAIN withPip |-> withPip[i].pip[1]]

\* PipScanner.should_scan (self._pips stays None when there is no manifest)
pip_should_scan(manifest) ==
    manifest # None /\ load_pip_prerequisites(manifest[1]) # <<>>

\* The depth of recursion at which Python raises RecursionError
MaxRecursion == 4

\* PipScanner._add_pip_license_for, and its loop over Requires
RECURSIVE add_pip_license_for(_, _, _, _, _, _)
RECURSIVE add_pip_requires(_, _, _, _, _, _, _)

add_pip_requires(spdx, pips, requires, i, pip, lics, depth) ==
    IF i > Len(requires) THEN [lics |-> lics, raised |-> FALSE]
    ELSE LET r == add_pip_license_for(spdx, pips, requires[i], Some(pip), lics, depth + 1)
         IN IF r.raised THEN r
            ELSE add_pip_requires(spdx, pips, requires, i + 1, pip, r.lics, depth)

add_pip_license_for(spdx, pips, pip, used_by, lics, depth) ==
    IF depth > MaxRecursion THEN [lics |-> lics, raised |-> TRUE]
    ELSE IF HasKey(lics, pip) THEN [lics |-> lics, raised |-> FALSE]
    ELSE
    LET details == get_pip_module_details(pips, pip)
        r == add_pip_requires(spdx, pips, details.Requires, 1, pip, lics, depth)
        s == search(spdx, details.License)
        s2 == IF s.entry = None /\ details.licenseFile # None
              THEN search(spdx, Some(guess_license_with_ninka(spdx, details.licenseFile[1]))).entry
              ELSE s.entry
        licensetype == IF s2 # None THEN Some(s2[1].name) ELSE details.License
        lic == IF details.empty
               THEN Lic(pip, Present(Some(s_Unknown)), Absent, Absent,
                        Absent, Absent, Absent, FALSE)
               ELSE Lic(pip, Present(licensetype), Present(details.Version),
                        Present(details.HomePage), Absent, Absent, Absent, FALSE)
        done == IF TruthyStr(used_by) THEN ensure_used_by(used_by[1], lic) ELSE lic
    IN IF details.empty THEN [lics |-> SetItem(lics, done), raised |-> FALSE]
       ELSE IF r.raised THEN r
       ELSE IF s.raised THEN [lics |-> r.lics, raised |-> TRUE]
       ELSE [lics |-> SetItem(r.lics, done), raised |-> FALSE]

\* PipScanner.scan
RECURSIVE pip_scan(_, _, _, _, _)
pip_scan(spdx, pips, names, i, lics) ==
    IF i > Len(names) THEN [lics |-> lics, raised |-> FALSE]
    ELSE LET r == add_pip_license_for(spdx, pips, names[i], None, lics, 1)
         IN IF r.raised THEN r
            ELSE pip_scan(spdx, pips, names, i + 1, r.lics)

----------------------------------------------------------------------------
(* _write_licenses *)

\* sorted(licenses.values(), key=lambda x: x['moduleName'])
sorted_by_module_name_Unsorted(lics) == lics

sorted_by_module_name(lics) ==
    LET perm == SortPerm(Keys(lics))
    IN [k \in DOMAIN lics |-> lics[perm[k]]]

\* _write_licenses: the Dependencies directory and the report file afterwards
write_licenses_Always(lics, files) ==
    [dir |-> TRUE, report |-> Some(sorted_by_module_name(lics))]

write_licenses(lics, files) ==
    IF Len(lics) > 0
    THEN [dir |-> TRUE, report |-> Some(sorted_by_module_name(lics))]
    ELSE files

----------------------------------------------------------------------------
(* Inputs of the SPDX harness: catalog files and search texts *)

lic_MIT == SpdxLic(s_MIT, s_MITLicense, TRUE)
lic_BSD3 == SpdxLic(s_BSD3Clause, s_BSD3Name, TRUE)
lic_Apache == SpdxLic(s_Apache20, s_ApacheName, TRUE)
lic_JSON == SpdxLic(s_JSON, s_JSONLicense, FALSE)
\* an entry whose display name is another entry's id
lic_X11 == SpdxLic(s_X11, s_MIT, TRUE)

CatalogFile == <<lic_MIT, lic_BSD3, lic_Apache, lic_JSON>>

CatalogFiles ==
    { CatalogFile,
      <<lic_MIT, lic_Apache, lic_JSON>>,
      <<lic_X11, lic_MIT, lic_BSD3, lic_Apache>>,
      <<>> }

SearchTexts ==
    { None, Some(s_empty), Some(s_MIT), Some(s_MITLicense), Some(s_spdxBSD3),
      Some(s_Apache2), Some(s_spdxMIT), Some(s_spdx), Some(s_Unknown),
      Some(s_BSD3Clause), Some(s_Apache20), Some(s_spdxGPL), Some(s_spd),
      Some(s_mit), Some(s_JSONLicense), Some(s_X11) }

----------------------------------------------------------------------------
(* Values of the variables a harness does not use *)

NoNet == [lookups |-> 0, rate |-> 0, rateOk |-> 0, repos |-> 0]
NoFs == [dir |-> FALSE, report |-> None]
NoLast == [op |-> "none"]

----------------------------------------------------------------------------
(* Harness of _SPDX.search: one catalog file, one text, one call *)

InitSPDX ==
    /\ pc = "search"
    /\ \E file \in CatalogFiles, text \in SearchTexts :
          env = [catalog |-> file, text |-> text]
    /\ licenses = <<>>
    /\ newLicenses = <<>>
    /\ github = GitHubAPI_init
    /\ net = NoNet
    /\ fs = NoFs
    /\ last = NoLast
    /\ calls = <<>>

CallSearch ==
    /\ pc = "search"
    /\ LET r == search(SPDX_init(env.catalog), env.text)
       IN last' = [op |-> "search", raised |-> r.raised, entry |-> r.entry]
    /\ pc' = "searched"
    /\ UNCHANGED <<env, licenses, newLicenses, github, net, fs, calls>>

NextSPDX == CallSearch

SpecSPDX == InitSPDX /\ [][NextSPDX]_vars

----------------------------------------------------------------------------
(* Harness of _GitHubAPI: any sequence of lookup calls on one instance,    *)
(* the network answering each request in any way.                          *)

MaxRemaining == 2
MaxLookups == 3

path_kss_lib_git == s_slash \o s_kss \o s_slash \o s_lib \o s_dotgit
path_kss_lib == s_slash \o s_kss \o s_slash \o s_lib
path_kss_zed == s_slash \o s_kss \o s_slash \o s_zed
path_kss == s_slash \o s_kss
path_bob_lib == s_slash \o s_bob \o s_slash \o s_lib \o s_slash

LookupUrls ==
    { None,
      Some(EmptyUrl),
      Some(Url(s_github_com, s_empty)),
      Some(Url(s_github_com, path_kss)),
      Some(Url(s_github_com, path_kss_lib_git)),
      Some(Url(s_github_com, path_kss_zed)),
      Some(Url(s_github_com, path_bob_lib)),
      Some(Url(s_x_org, path_kss_lib)),
      Some(Url(s_x_org, path_bob_lib)) }

\* What GET /rate_limit may give: rate.remaining, or None for a failure
RateAnswers == {None} \cup {Some(n) : n \in 0..MaxRemaining}

\* What GET /<key>/<organization>/repos may give: a listing, or None for a failure
ReposAnswers ==
    { None,
      Some(<<Repo(s_lib, LicObj(Some(s_MIT))), Repo(s_zed, LicNull)>>),
      Some(<<Repo(s_zed, LicAbsent), Repo(s_lib, LicObj(None))>>) }

NoAnswers == [rate1 |-> None, orgs |-> None, rate2 |-> None, users |-> None]

\* The answers the network may give to the requests of lookup(url) in state
\* gh. Only the answers lookup can come to read are enumerated: none when it
\* returns before any request, no rate answer when the budget is already known.
NetAnswers(gh, url) ==
    LET p == parse_url(url)
        rates == IF gh.remaining = -1 THEN RateAnswers ELSE {None}
    IN IF /\ p.project # None
          /\ p.organization[1] \notin DOMAIN gh.cached
          /\ p.host = Some(s_github_com)
       THEN [rate1 : rates, orgs : ReposAnswers, rate2 : rates, users : ReposAnswers]
       ELSE {NoAnswers}

\* The ghost counters after one lookup
Counted(n, r) ==
    [lookups |-> n.lookups + 1, rate |-> n.rate + r.rate,
     rateOk |-> n.rateOk + r.rateOk, repos |-> n.repos + r.repos]

\* The ghost record of one lookup
LookupRecord(gh, url, o, r) ==
    [op |-> "lookup", url |-> url, answers |-> o, raised |-> r.raised, val |-> r.val,
     requests |-> r.rate + r.repos, rateRequests |-> r.rate, fromCache |-> r.fromCache,
     remainingBefore |-> gh.remaining, cachedBefore |-> DOMAIN gh.cached]

InitGH ==
    /\ pc = "lookup"
    /\ env = [catalog |-> CatalogFile, text |-> None]
    /\ licenses = <<>>
    /\ newLicenses = <<>>
    /\ github = GitHubAPI_init
    /\ net = NoNet
    /\ fs = NoFs
    /\ last = NoLast
    /\ calls = <<>>

CallLookup ==
    /\ pc = "lookup"
    /\ net.lookups < MaxLookups
    /\ \E url \in LookupUrls : \E o \in NetAnswers(github, url) :
          \E r \in {lookup(github, url, o)} :
             /\ github' = r.gh
             /\ net' = Counted(net, r)
             /\ last' = LookupRecord(github, url, o, r)
    /\ UNCHANGED <<pc, env, licenses, newLicenses, fs, calls>>

NextGH == CallLookup

SpecGH == InitGH /\ [][NextGH]_vars

----------------------------------------------------------------------------
(* Inputs of a run of _main: the prior report, the manifest, the directories *)
(* of the prerequisites, the Package.resolved files and the installed        *)
(* packages.                                                                 *)

url_kss_lib_git == Url(s_github_com, path_kss_lib_git)
url_kss_foo == Url(s_github_com, s_slash \o s_kss \o s_slash \o s_foo)
url_kss_zed == Url(s_github_com, path_kss_zed)
url_foo_tarball ==
    Url(s_x_org, s_slash \o s_dl \o s_slash \o s_foo \o s_dash \o s_v1 \o s_tar_gz)
url_bar == Url(s_x_org, s_slash \o s_dl \o s_slash \o s_bar)
s_foo_v1 == s_foo \o s_dash \o s_v1

\* Entries of a prior report
e_generated ==
    Lic(s_foo, Present(Some(s_MITLicense)), Present(Some(s_v1)), Present(Some(url_kss_foo)),
        Present(s_MIT), Present(TRUE), Present(<<s_app>>), FALSE)
e_manual_id ==
    Lic(s_foo, Present(Some(s_MIT)), Absent, Absent, Absent, Absent, Absent, TRUE)
e_manual_canonical ==
    Lic(s_foo, Present(Some(s_MITLicense)), Absent, Absent,
        Present(s_MIT), Present(TRUE), Present(<<s_bar>>), TRUE)
e_manual_custom ==
    Lic(s_lib, Present(Some(s_Custom)), Present(Some(s_v2)), Present(Some(url_kss_lib_git)),
        Absent, Absent, Present(<<s_bar, s_zed>>), TRUE)
e_manual_unsorted ==
    Lic(s_lib, Present(Some(s_Custom)), Present(Some(s_v2)), Present(Some(url_bar)),
        Absent, Absent, Present(<<s_zed, s_bar>>), TRUE)

PriorReports ==
    { None,
      Some(<<e_generated>>),
      Some(<<e_manual_id>>),
      Some(<<e_manual_canonical, e_manual_custom>>),
      Some(<<e_generated, e_manual_unsorted>>) }

\* Manifests
m_git_lib == ManifestEntry(Some(url_kss_lib_git), None, None, None)
m_git_foo == ManifestEntry(Some(url_kss_foo), None, None, None)
m_tarball_foo == ManifestEntry(None, Some(url_foo_tarball), None, None)
m_pip_pkg == ManifestEntry(None, None, None, Some(s_pkg))
m_git_zed == ManifestEntry(Some(url_kss_zed), None, None, None)

Manifests ==
    { None,
      Some(<<>>),
      Some(<<m_git_lib, m_tarball_foo>>),
      Some(<<m_git_foo, m_pip_pkg>>),
      Some(<<m_pip_pkg>>),
      Some(<<m_git_foo, m_tarball_foo>>),
      Some(<<m_git_lib, m_git_zed>>) }

\* Entries of a nested report
e_nested_zed ==
    Lic(s_zed, Present(Some(s_MITLicense)), Absent, Present(Some(url_kss_zed)),
        Present(s_MIT), Present(TRUE), Present(<<s_lib>>), FALSE)
e_nested_zed_unsorted ==
    Lic(s_zed, Present(Some(s_Custom)), Absent, Present(Some(url_bar)),
        Absent, Absent, Present(<<s_lib, s_bar, s_bar>>), FALSE)

\* Directories, by the last component of their path
DirTrees ==
    { <<>>,
      (s_lib :> Dir(TRUE, <<File(s_README)>>, s_empty, None, Some(s_rev)))
        @@ (s_foo_v1 :> Dir(TRUE, <<Folder(s_LICENSE), File(s_license_txt)>>, s_MIT, None, None))
        @@ (s_foo :> Dir(TRUE, <<File(s_None)>>, s_UNKNOWN, None, None)),
      (s_lib :> Dir(TRUE, <<File(s_README), File(s_license_txt)>>, s_spdxBSD3,
                    Some(<<e_nested_zed>>), None))
        @@ (s_foo_v1 :> Dir(TRUE, <<>>, s_empty, Some(<<e_nested_zed>>), None))
        @@ (s_zed :> Dir(TRUE, <<File(s_LICENSE)>>, s_empty, None, None)),
      (s_lib :> Dir(TRUE, <<>>, s_empty, Some(<<e_nested_zed_unsorted>>), None))
        @@ (s_foo :> Dir(TRUE, <<File(s_LICENSE)>>, s_Custom, Some(<<e_nested_zed>>), None)) }

\* Package.resolved files
SwiftFiles ==
    { <<>>,
      << <<Pin(s_zed, Some(s_v1), Some(url_kss_zed))>>,
         <<Pin(s_zed, Some(s_v2), Some(url_kss_zed)), Pin(s_bar, None, Some(url_bar))>> >> }

\* Installed packages
Pips ==
    { <<>>,
      (s_pkg :> PipDetails(<<s_dep, s_foo>>, Some(s_MIT), Some(s_v1), Some(url_bar), None))
        @@ (s_dep :> PipDetails(<<>>, Some(s_UNKNOWN), Some(s_v2), Some(url_kss_zed), Some(s_Apache2)))
        @@ (s_foo :> PipDetails(<<s_dep>>, Some(s_Custom), None, Some(url_kss_foo), None)),
      (s_pkg :> PipDetails(<<>>, None, Some(s_v1), None, None)) }

\* The runs: every combination of the inputs above, an input no scanner of
\* the run reads (the directories without a prerequisite, the installed
\* packages without a pip entry in the manifest) being left empty
ReadsDirs(manifest, swift) ==
    \/ swift # <<>>
    \/ manifest # None /\ \E i \in DOMAIN manifest[1] :
            manifest[1][i].git # None \/ manifest[1][i].tarball # None
ReadsPips(manifest) ==
    manifest # None /\ \E i \in DOMAIN manifest[1] : manifest[1][i].pip # None

EnvsOf(manifest, swift) ==
    [catalog : {CatalogFile}, text : {None}, modulename : {s_app},
     report : PriorReports, manifest : {manifest}, swift : {swift},
     dirs : IF ReadsDirs(manifest, swift) THEN DirTrees ELSE {<<>>},
     pips : IF ReadsPips(manifest) THEN Pips ELSE {<<>>}]

Envs == UNION {EnvsOf(manifest, swift) : manifest \in Manifests, swift \in SwiftFiles}

----------------------------------------------------------------------------
(* _main: the scanners in their order, each merged entry by entry, then the *)
(* report                                                                   *)

NextOf == [manual |-> "kss", kss |-> "swift", swift |-> "pip", pip |-> "write"]
MergeOf == [manual |-> "manual_merge", kss |-> "kss_merge",
            swift |-> "swift_merge", pip |-> "pip_merge"]
AfterMerge == [manual_merge |-> "kss", kss_merge |-> "swift",
               swift_merge |-> "pip", pip_merge |-> "write"]

\* Scanner.spdx, built once by Scanner.__init__
Scanner_spdx == SPDX_init(env.catalog)

Init ==
    /\ pc = "manual"
    /\ env \in Envs
    /\ licenses = <<>>
    /\ newLicenses = <<>>
    /\ github = GitHubAPI_init
    /\ net = NoNet
    /\ fs = [dir |-> env.report # None \/ env.manifest # None, report |-> env.report]
    /\ last = NoLast
    /\ calls = <<>>

\* What scan gives for each scanner in any state, also when should_scan did
\* not return true: ManuallyEditedScanner.scan returns None without a report
\* file and the loop over it raises TypeError; get_project_list returns None
\* without a manifest and the loop of scan raises; PipScanner.scan raises
\* unless self._pips is a list that is not empty.
scan_manual(report) ==
    IF manual_entries(report) = None THEN [lics |-> <<>>, raised |-> TRUE]
    ELSE [lics |-> manual_scan(report), raised |-> FALSE]

scan_kss(spdx, dirs, manifest) ==
    IF manifest = None THEN [lics |-> <<>>, raised |-> TRUE]
    ELSE directory_scan(spdx, dirs, kss_get_project_list(dirs, manifest[1], 1), 1, <<>>)

scan_swift(spdx, dirs, files) ==
    directory_scan(spdx, dirs, swift_get_project_list(dirs, files), 1, <<>>)

scan_pip(spdx, pips, manifest) ==
    IF ~pip_should_scan(manifest) THEN [lics |-> <<>>, raised |-> TRUE]
    ELSE pip_scan(spdx, pips, load_pip_prerequisites(manifest[1]), 1, <<>>)

\* One call of a scanner's method, as the ghost variable calls records it
Call(scanner, method, result) ==
    [scanner |-> scanner, method |-> method, result |-> result]

\* Scanner.add_licenses up to the call of _adjust_and_add_new_licenses:
\* should_scan, then scan only if it returned true. should: what should_scan
\* returns; scan: what scan gives if it is called.
add_licenses_Unconditional(scanner, should, scan) ==
    [should |-> should,
     calls |-> <<Call(scanner, "should_scan", should), Call(scanner, "scan", ~scan.raised)>>,
     lics |-> scan.lics, raised |-> scan.raised]

add_licenses(scanner, should, scan) ==
    IF should
    THEN [should |-> TRUE,
          calls |-> <<Call(scanner, "should_scan", TRUE),
                      Call(scanner, "scan", ~scan.raised)>>,
          lics |-> scan.lics, raised |-> scan.raised]
    ELSE [should |-> FALSE,
          calls |-> <<Call(scanner, "should_scan", FALSE)>>,
          lics |-> <<>>, raised |-> FALSE]

\* The driver's step for one scanner of the list of _main. a: what
\* add_licenses did.
Scanned(scanner, a) ==
    /\ pc' = IF a.raised THEN "failed"
             ELSE IF a.lics = <<>> THEN NextOf[scanner]
             ELSE MergeOf[scanner]
    /\ newLicenses' = IF a.raised THEN <<>> ELSE a.lics
    /\ last' = [op |-> "scan", scanner |-> scanner, should |-> a.should,
                raised |-> a.raised, lics |-> a.lics]
    /\ calls' = calls \o a.calls
    /\ UNCHANGED <<env, licenses, github, net, fs>>

AddLicensesManual ==
    /\ pc = "manual"
    /\ \E a \in {add_licenses("manual", manual_should_scan(fs.report),
                              scan_manual(fs.report))} :
          Scanned("manual", a)

AddLicensesKSS ==
    /\ pc = "kss"
    /\ \E a \in {add_licenses("kss", kss_should_scan(env.manifest),
                              scan_kss(Scanner_spdx, env.dirs, env.manifest))} :
          Scanned("kss", a)

AddLicensesSwift ==
    /\ pc = "swift"
    /\ \E a \in {add_licenses("swift", swift_should_scan(env.swift),
                              scan_swift(Scanner_spdx, env.dirs, env.swift))} :
          Scanned("swift", a)

AddLicensesPip ==
    /\ pc = "pip"
    /\ \E a \in {add_licenses("pip", pip_should_scan(env.manifest),
                              scan_pip(Scanner_spdx, env.pips, env.manifest))} :
          Scanned("pip", a)

\* One iteration of the loop of _adjust_and_add_new_licenses
Merge ==
    /\ pc \in DOMAIN AfterMerge
    /\ newLicenses # <<>>
    /\ LET lic == Head(newLicenses)
           reached == adjust_and_add_new_license(Scanner_spdx, env.modulename, lic,
                                                 licenses, github, NoAnswers).lookedUp
       IN \E o \in IF reached THEN NetAnswers(github, GetOrNone(lic.moduleUrl))
                   ELSE {NoAnswers} :
          \E r \in {adjust_and_add_new_license(Scanner_spdx, env.modulename, lic,
                                               licenses, github, o)} :
             /\ licenses' = r.licenses
             /\ github' = r.gh
             /\ net' = Counted(net, r)
             /\ newLicenses' = IF r.raised THEN <<>> ELSE Tail(newLicenses)
             /\ pc' = IF r.raised THEN "failed"
                      ELSE IF Tail(newLicenses) = <<>> THEN AfterMerge[pc]
                      ELSE pc
             /\ last' = [op |-> "merge", lic |-> lic, before |-> licenses,
                         raised |-> r.raised, searched |-> r.searched,
                         lookedUp |-> r.lookedUp]
    /\ UNCHANGED <<env, fs, calls>>

\* _write_licenses
WriteLicenses ==
    /\ pc = "write"
    /\ fs' = write_licenses(licenses, fs)
    /\ pc' = "done"
    /\ last' = [op |-> "write", before |-> fs]
    /\ UNCHANGED <<env, licenses, newLicenses, github, net, calls>>

Next ==
    \/ AddLicensesManual
    \/ AddLicensesKSS
    \/ AddLicensesSwift
    \/ AddLicensesPip
    \/ Merge
    \/ WriteLicenses

Spec == Init /\ [][Next]_vars

----------------------------------------------------------------------------
(* Claims about _SPDX.search, checked under SpecSPDX *)

\* The entry the stated precedence selects for a text: the entry of that id,
\* else the entry of that display name, else the entry the quirk table names,
\* else the entry whose id is the text without the prefix 'spdx', else none.
PrecedenceEntry(spdx, t) ==
    IF t \in DOMAIN spdx.entries THEN Some(spdx.entries[t])
    ELSE IF t \in DOMAIN spdx.name_map /\ spdx.name_map[t] \in DOMAIN spdx.entries
    THEN Some(spdx.entries[spdx.name_map[t]])
    ELSE IF t \in DOMAIN ninka_fallbacks /\ ninka_fallbacks[t] \in DOMAIN spdx.entries
    THEN Some(spdx.entries[ninka_fallbacks[t]])
    ELSE IF StartsWith(t, s_spdx) /\ DropFirst(t, 4) \in DOMAIN spdx.entries
    THEN Some(spdx.entries[DropFirst(t, 4)])
    ELSE None

\* C10: search(text) returns the first hit of the precedence id, display name,
\* quirk table, 'spdx' prefix, and returns none without raising for every
\* other input, a None text included.
C10_SearchPrecedence ==
    pc = "searched" =>
        /\ ~last.raised
        /\ last.entry = IF env.text = None THEN None
                        ELSE PrecedenceEntry(SPDX_init(env.catalog), env.text[1])

\* C10 restricted to texts that are strings: the part of it the code meets
C10_SearchPrecedenceOfStrings ==
    (pc = "searched" /\ env.text # None) =>
        /\ ~last.raised
        /\ last.entry = PrecedenceEntry(SPDX_init(env.catalog), env.text[1])

----------------------------------------------------------------------------
(* Claims about _GitHubAPI, checked under SpecGH *)

\* C4: lookup never raises, whatever the URL and whatever the network answers.
C4_LookupNeverRaises ==
    last.op = "lookup" => ~last.raised

\* C5 as stated: a lookup called with the budget at zero makes no network
\* request and gives no answer.
C5_ExhaustedGivesNoAnswer ==
    (last.op = "lookup" /\ last.remainingBefore = 0) =>
        /\ last.requests = 0
        /\ last.val = None

\* C5 as amended: a lookup called with the budget at zero makes no network
\* request and leaves the budget at zero; it gives an answer only from the
\* cached listing of the URL's organization.
C5_ExhaustedMakesNoRequest ==
    (last.op = "lookup" /\ last.remainingBefore = 0) =>
        /\ last.requests = 0
        /\ github.remaining = 0
        /\ (last.val # None => last.fromCache)
        /\ (~last.fromCache /\ ~last.raised => last.val = None)

\* C5 witness: with the budget at zero, one lookup answered from the cache and
\* (now or earlier) the budget was spent by real requests.
C5_WitnessExhaustedCacheAnswer ==
    /\ last.op = "lookup"
    /\ last.remainingBefore = 0
    /\ last.fromCache
    /\ last.val = Some(s_MIT)
    /\ net.repos > 0

\* C6 as stated: the rate-limit endpoint is requested at most once.
C6_RateLimitRequestedOnce ==
    net.rate <= 1

\* C6 as amended: the rate-limit endpoint answers successfully at most once;
\* the budget is unfetched exactly as long as no request has succeeded, and a
\* lookup that starts with a fetched budget never requests the endpoint.
C6_RateLimitFetchedOnce ==
    /\ net.rateOk <= 1
    /\ (github.remaining = -1 <=> net.rateOk = 0)
    /\ (last.op = "lookup" /\ last.remainingBefore # -1 => last.rateRequests = 0)

\* C6 witness: the endpoint failed, was requested again and answered, and a
\* later lookup made a repository request without asking for the budget again.
C6_WitnessRefetchAfterFailure ==
    /\ net.rate >= 2
    /\ net.rateOk = 1
    /\ last.op = "lookup"
    /\ last.remainingBefore > 0
    /\ last.requests > 0
    /\ last.rateRequests = 0

----------------------------------------------------------------------------
(* Claims about a run of _main, checked under Spec *)

\* An entry without its x-usedBy list
WithoutUsedBy(lic) == [lic EXCEPT !.x_usedBy = Absent]

\* The entries of the prior report flagged x-manuallyEdited
PriorManualEntries ==
    IF env.report = None THEN {}
    ELSE {env.report[1][i] : i \in {j \in DOMAIN env.report[1] :
                                        env.report[1][j].x_manuallyEdited}}

\* C1: after a full run every entry flagged x-manuallyEdited in the prior
\* report is in the mapping with every field other than x-usedBy equal to its
\* value in the prior report.
C1_ManualEntriesKept ==
    pc = "done" =>
        \A e \in PriorManualEntries :
            /\ HasKey(licenses, e.moduleName)
            /\ WithoutUsedBy(Item(licenses, e.moduleName)) = WithoutUsedBy(e)

\* A list of str in lexicographic order without duplicates
SortedNoDuplicates(list) ==
    \A i \in 1..(Len(list) - 1) : StrLess(list[i], list[i + 1])

UsedBySorted(lic) ==
    lic.x_usedBy # Absent => SortedNoDuplicates(lic.x_usedBy[1])

\* The entries of the nested reports of the run's directories
NestedEntries ==
    UNION {IF env.dirs[d].nested = None THEN {} ELSE Range(env.dirs[d].nested[1]) :
           d \in DOMAIN env.dirs}

\* The x-usedBy lists the run reads are sorted and without duplicates
ReadUsedBySorted ==
    \A e \in PriorManualEntries \cup NestedEntries : UsedBySorted(e)

\* The names a module is used by in the runs
UsedByNames == {s_app, s_bar, s_lib, s_pkg, s_zed}

\* Calling ensure_used_by twice with one name gives what calling it once gives
EnsureUsedByIdempotent(lic) ==
    \A m \in UsedByNames :
        ensure_used_by(m, ensure_used_by(m, lic)) = ensure_used_by(m, lic)

\* C2 as stated: in every state of the mapping and in the written report each
\* x-usedBy list is sorted and without duplicates, whatever lists were read.
C2_UsedByAlwaysSorted ==
    /\ \A i \in DOMAIN licenses : UsedBySorted(licenses[i])
    /\ (pc = "done" /\ licenses # <<>>) =>
            \A i \in DOMAIN fs.report[1] : UsedBySorted(fs.report[1][i])

\* C2 as amended: when the x-usedBy lists read from the prior report's
\* manually edited entries and from the nested reports are sorted and without
\* duplicates, so is every x-usedBy list of the mapping and of the written
\* report; and ensure_used_by is idempotent on every entry, sorted or not.
C2_UsedBySortedWhenReadSorted ==
    /\ ReadUsedBySorted => C2_UsedByAlwaysSorted
    /\ \A i \in DOMAIN licenses : EnsureUsedByIdempotent(licenses[i])
    /\ \A i \in DOMAIN newLicenses : EnsureUsedByIdempotent(newLicenses[i])

\* C2 witness: the lists read were sorted, and the merge has just inserted
\* the module name in front of a name an existing entry already held.
C2_WitnessInsertedInOrder ==
    /\ ReadUsedBySorted
    /\ last.op = "merge"
    /\ HasKey(last.before, last.lic.moduleName)
    /\ \E i \in DOMAIN licenses :
          /\ licenses[i].x_usedBy # Absent
          /\ Len(licenses[i].x_usedBy[1]) >= 2
          /\ licenses[i].x_usedBy[1][1] = env.modulename
          /\ licenses[i] # last.before[i]

\* C3: when the merge processes an entry whose moduleName is already a key,
\* the existing entry's fields other than x-usedBy are unchanged, no SPDX or
\* remote lookup is performed, and the keys are unchanged.
C3_FirstWriteWins ==
    (last.op = "merge" /\ HasKey(last.before, last.lic.moduleName)) =>
        /\ ~last.searched
        /\ ~last.lookedUp
        /\ ~last.raised
        /\ Keys(licenses) = Keys(last.before)
        /\ \A i \in DOMAIN licenses :
              WithoutUsedBy(licenses[i]) = WithoutUsedBy(last.before[i])

\* C3 witness: an incoming entry with other license data than the existing
\* entry of its name was merged, and the existing entry got the used-by name.
C3_WitnessSecondWrite ==
    /\ last.op = "merge"
    /\ HasKey(last.before, last.lic.moduleName)
    /\ WithoutUsedBy(last.lic) # WithoutUsedBy(Item(last.before, last.lic.moduleName))
    /\ licenses # last.before


\* The prerequisites of the manifest whose directory holds no LICENSE* file or
\* does not exist
PrereqsWithoutLicenseFile ==
    IF env.manifest = None THEN {}
    ELSE {p \in Range(kss_get_project_list(env.dirs, env.manifest[1], 1)) :
             get_license_filename(DirAt(env.dirs, p.directory)) = None}

HasUnknownLicense(lics, name) ==
    HasKey(lics, name) /\ Item(lics, name).moduleLicense = Present(Some(s_Unknown))

HasLicenseText(lic) ==
    lic.moduleLicense # Absent /\ lic.moduleLicense[1] # None

\* C7: a git or tarball prerequisite without a LICENSE* file gets the
\* moduleLicense "Unknown", in what the scanner produces and (unless a
\* manually edited entry of its name came first) in the result of the run,
\* and no scanner produces an entry whose moduleLicense is absent or null.
C7_NoLicenseFileGivesUnknown ==
    /\ (last.op = "scan" /\ last.scanner = "kss" /\ last.should) =>
            /\ ~last.raised
            /\ \A p \in PrereqsWithoutLicenseFile : HasUnknownLicense(last.lics, p.name)
    /\ pc = "done" =>
            \A p \in PrereqsWithoutLicenseFile :
                p.name \notin {e.moduleName : e \in PriorManualEntries} =>
                    HasUnknownLicense(licenses, p.name)
    /\ last.op = "scan" => \A i \in DOMAIN last.lics : HasLicenseText(last.lics[i])

\* C8: write_licenses leaves the Dependencies directory and the report file
\* as they were when the mapping is empty, and otherwise leaves a report
\* holding exactly the entries of the mapping.
C8_EmptyMappingWritesNothing ==
    (pc = "done" /\ last.op = "write") =>
        IF licenses = <<>>
        THEN fs = last.before
        ELSE /\ fs.dir
             /\ fs.report # None
             /\ Len(fs.report[1]) = Len(licenses)
             /\ Range(fs.report[1]) = Range(licenses)

\* C8 witness: a run that found nothing ended with the prior report in place.
C8_WitnessPriorReportKept ==
    /\ pc = "done"
    /\ licenses = <<>>
    /\ env.report # None
    /\ env.manifest # None
    /\ fs.report = env.report

\* C9: the written report is sorted by moduleName and holds each moduleName
\* once.
C9_ReportSortedUniqueNames ==
    (pc = "done" /\ licenses # <<>>) =>
        /\ fs.report # None
        /\ SortedNoDuplicates(Keys(fs.report[1]))

\* C9 witness: a report of three entries or more was written from a mapping
\* that was not in the order of the names, one entry of it a manually edited
\* entry that a later scanner reported again.
C9_WitnessReorderedReport ==
    /\ pc = "done"
    /\ Len(licenses) >= 3
    /\ fs.report = Some(sorted_by_module_name(licenses))
    /\ fs.report # Some(licenses)
    /\ \E i \in DOMAIN licenses :
          /\ licenses[i].x_manuallyEdited
          /\ licenses[i].x_usedBy # Absent
          /\ env.modulename \in Range(licenses[i].x_usedBy[1])
          /\ licenses[i] \notin PriorManualEntries

----------------------------------------------------------------------------
(* Harness of KSSPrereqScanner._parse_tarball_name: one file name, one call *)

MaxStemLen == 3

\* The file names: every string of at most MaxStemLen of these characters,
\* followed by one of the endings, and some longer names
StemChars == {"f", "-", "1", "."}
s_zip == <<".", "z", "i", "p">>
s_foo_123_tar_gz == s_foo \o s_dash \o <<"1", ".", "2", ".", "3">> \o s_tar_gz
s_foo_1_rc_2_tar_gz == s_foo \o s_dash \o <<"1">> \o s_dash \o <<"r", "c">> \o s_dash \o <<"2">> \o s_tar_gz

TarballNames ==
    {stem \o ending : stem \in UNION {[1..n -> StemChars] : n \in 0..MaxStemLen},
                      ending \in {s_empty, s_tar_gz, s_zip}}
    \cup {s_foo_123_tar_gz, s_foo_1_rc_2_tar_gz, s_foo \o s_tar_gz, s_tar_gz \o s_dash \o s_foo}

InitTar ==
    /\ pc = "parse"
    /\ \E filename \in TarballNames : env = [filename |-> filename]
    /\ licenses = <<>>
    /\ newLicenses = <<>>
    /\ github = GitHubAPI_init
    /\ net = NoNet
    /\ fs = NoFs
    /\ last = NoLast
    /\ calls = <<>>

CallParseTarballName ==
    /\ pc = "parse"
    /\ \E r \in {parse_tarball_name(env.filename)} :
          last' = [op |-> "parse", name |-> r.name, version |-> r.version,
                   directory |-> r.directory]
    /\ pc' = "parsed"
    /\ UNCHANGED <<env, licenses, newLicenses, github, net, fs, calls>>

NextTar == CallParseTarballName

SpecTar == InitTar /\ [][NextTar]_vars

----------------------------------------------------------------------------
(* Claims about _parse_tarball_name, checked under SpecTar *)

\* C11: for a file name N-V.tar.gz with no hyphen in N the name is N and the
\* version is V; for a file name without a hyphen the version is none and the
\* name is the file name without the ending .tar.gz.
C11_TarballNameAndVersion ==
    pc = "parsed" =>
        LET f == env.filename
            hyphens == {i \in DOMAIN f : f[i] = "-"}
            stem == IF EndsWith(f, s_tar_gz) THEN SubSeq(f, 1, Len(f) - 7) ELSE f
        IN /\ \A i \in hyphens :
                (/\ EndsWith(f, s_tar_gz)
                 /\ i <= Len(f) - 7
                 /\ \A j \in hyphens : i <= j) =>
                    /\ last.name = SubSeq(f, 1, i - 1)
                    /\ last.version = Some(SubSeq(f, i + 1, Len(f) - 7))
           /\ hyphens = {} =>
                    /\ last.version = None
                    /\ last.name = stem

\* C11 witness: a file name N-V.tar.gz whose V holds a hyphen was parsed.
C11_WitnessVersionWithHyphen ==
    /\ pc = "parsed"
    /\ env.filename = s_foo_1_rc_2_tar_gz
    /\ last.name = s_foo
    /\ last.version = Some(<<"1", "-", "r", "c", "-", "2">>)

----------------------------------------------------------------------------
(* Further claims about a run of _main, checked under Spec *)

\* The entry of that name is in the mapping with the module in its x-usedBy
UsedByModule(lics, name, modulename) ==
    /\ HasKey(lics, name)
    /\ Item(lics, name).x_usedBy # Absent
    /\ modulename \in Range(Item(lics, name).x_usedBy[1])

\* C12: whenever the merge has processed an entry flagged x-manuallyEdited,
\* the entry of its name in the mapping has the module name in its x-usedBy,
\* whether or not the entry carried an x-usedBy list.
C12_ManualEntryUsedByModule ==
    (last.op = "merge" /\ last.lic.x_manuallyEdited /\ ~last.raised) =>
        UsedByModule(licenses, last.lic.moduleName, env.modulename)


\* The place of each scanner in the list of _main
ScannerRank == [manual |-> 1, kss |-> 2, swift |-> 3, pip |-> 4]

\* The calls of one method of one scanner made so far
CallsOf(scanner, method) ==
    {i \in DOMAIN calls : calls[i].scanner = scanner /\ calls[i].method = method}

\* The input file of the scanner is missing
InputMissing(scanner) ==
    CASE scanner = "manual" -> env.report = None
      [] scanner = "kss" -> env.manifest = None
      [] scanner = "swift" -> env.swift = <<>>
      [] scanner = "pip" -> env.manifest = None

\* C13: the scanners are called in the order manual, kss, swift, pip; each
\* scanner's should_scan is called once and before its scan; scan is called
\* only after should_scan returned true; a finished run has called every
\* should_scan; and a scanner whose input file is missing is not scanned,
\* gives no entry and raises nothing.
C13_ScannersInOrder ==
    /\ \A i, j \in DOMAIN calls :
          i < j => ScannerRank[calls[i].scanner] <= ScannerRank[calls[j].scanner]
    /\ \A sc \in DOMAIN ScannerRank :
          /\ Cardinality(CallsOf(sc, "should_scan")) <= 1
          /\ Cardinality(CallsOf(sc, "scan")) <= 1
          /\ pc = "done" => Cardinality(CallsOf(sc, "should_scan")) = 1
          /\ \A i \in CallsOf(sc, "scan") :
                /\ i > 1
                /\ calls[i - 1] = Call(sc, "should_scan", TRUE)
          /\ (InputMissing(sc) /\ CallsOf(sc, "should_scan") # {}) =>
                /\ CallsOf(sc, "scan") = {}
                /\ (last.op = "scan" /\ last.scanner = sc) =>
                      (~last.raised /\ last.lics = <<>> /\ newLicenses = <<>>)

\* C13 witness: a finished run in which the scanner of the prior report had
\* no file and was not scanned, and two later scanners were scanned.
C13_WitnessSkippedAndScanned ==
    /\ pc = "done"
    /\ env.report = None
    /\ CallsOf("manual", "scan") = {}
    /\ CallsOf("kss", "scan") # {}
    /\ CallsOf("pip", "scan") # {}
    /\ Len(calls) = 6


\* The project list of the directory based scanner that has just scanned
ScannedProjectList ==
    IF last.scanner = "kss"
    THEN kss_get_project_list(env.dirs, env.manifest[1], 1)
    ELSE swift_get_project_list(env.dirs, env.swift)

\* The entries of the nested report of a prerequisite
NestedOf(prereq) ==
    LET dir == DirAt(env.dirs, prereq.directory)
    IN IF dir.nested = None THEN <<>> ELSE dir.nested[1]

\* The local mapping of scan after the first k prerequisites
ScannedUpTo(k) ==
    directory_scan(Scanner_spdx, env.dirs, SubSeq(ScannedProjectList, 1, k), 1, <<>>).lics

DirectoryScanDone ==
    /\ last.op = "scan"
    /\ last.scanner \in {"kss", "swift"}
    /\ last.should
    /\ ~last.raised

\* C14: in the result of scan every entry taken from the nested report of a
\* prerequisite P has P in its x-usedBy.
C14_NestedEntriesUsedByPrereq ==
    DirectoryScanDone =>
        \A k \in DOMAIN ScannedProjectList :
            \A i \in DOMAIN NestedOf(ScannedProjectList[k]) :
                UsedByModule(last.lics, NestedOf(ScannedProjectList[k])[i].moduleName,
                             ScannedProjectList[k].name)

\* What _process_prereq does instead: an entry of the nested report of P
\* whose module name was already collected when P is processed has P in its
\* x-usedBy in the result; an entry whose name is collected for the first
\* time is inserted as the nested report gives it, with the x-usedBy list of
\* that report.
C14_NestedEntriesAttributed ==
    DirectoryScanDone =>
        \A k \in DOMAIN ScannedProjectList :
            LET P == ScannedProjectList[k]
                others == NestedOf(P)
            IN \A i \in DOMAIN others :
                  /\ HasKey(last.lics, others[i].moduleName)
                  /\ HasKey(ScannedUpTo(k - 1), others[i].moduleName) =>
                        UsedByModule(last.lics, others[i].moduleName, P.name)
                  /\ (/\ ~HasKey(ScannedUpTo(k - 1), others[i].moduleName)
                      /\ \A j \in DOMAIN others :
                            others[j].moduleName = others[i].moduleName => j = i) =>
                        Item(ScannedUpTo(k), others[i].moduleName) = others[i]

----------------------------------------------------------------------------
(* Harness of PipScanner.scan: one set of installed packages with their     *)
(* Requires lists, one list of packages named by the manifest, one call     *)

MaxRequires == 2

\* The installed packages
PipNames == {s_pkg, s_dep, s_foo}

\* The Requires lists: the lists of at most MaxRequires different packages
RequiresLists ==
    {r \in UNION {[1..n -> PipNames] : n \in 0..MaxRequires} :
        \A i, j \in DOMAIN r : r[i] = r[j] => i = j}

\* An installed package with a license the catalog knows
PipWith(requires) == PipDetails(requires, Some(s_MIT), Some(s_v1), Some(url_bar), None)

\* The diamond pkg -> dep, pkg -> foo, dep -> lib, foo -> lib
PipDiamond ==
    (s_pkg :> PipWith(<<s_dep, s_foo>>)) @@ (s_dep :> PipWith(<<s_lib>>))
        @@ (s_foo :> PipWith(<<s_lib>>)) @@ (s_lib :> PipWith(<<>>))

PipGraphs ==
    {(s_pkg :> PipWith(r1)) @@ (s_dep :> PipWith(r2)) @@ (s_foo :> PipWith(r3)) :
        r1 \in RequiresLists, r2 \in RequiresLists, r3 \in RequiresLists}
    \cup {PipDiamond}

\* The packages the manifest names
PipRoots == {<<s_pkg>>, <<s_dep, s_pkg>>}

InitPip ==
    /\ pc = "pip_scan"
    /\ \E pips \in PipGraphs, names \in PipRoots :
          env = [catalog |-> CatalogFile, pips |-> pips, names |-> names]
    /\ licenses = <<>>
    /\ newLicenses = <<>>
    /\ github = GitHubAPI_init
    /\ net = NoNet
    /\ fs = NoFs
    /\ last = NoLast
    /\ calls = <<>>

CallPipScan ==
    /\ pc = "pip_scan"
    /\ \E r \in {pip_scan(SPDX_init(env.catalog), env.pips, env.names, 1, <<>>)} :
          last' = [op |-> "pip_scan", raised |-> r.raised, lics |-> r.lics]
    /\ pc' = "pip_scanned"
    /\ UNCHANGED <<env, licenses, newLicenses, github, net, fs, calls>>

NextPip == CallPipScan

SpecPip == InitPip /\ [][NextPip]_vars

----------------------------------------------------------------------------
(* Claims about PipScanner.scan, checked under SpecPip *)

\* The packages a package lists in its Requires
RequiresOf(pip) == Range(get_pip_module_details(env.pips, pip).Requires)

\* The packages reachable from a set of packages in at most n steps
RECURSIVE ReachableIn(_, _)
ReachableIn(S, n) ==
    IF n = 0 THEN S
    ELSE ReachableIn(S \cup UNION {RequiresOf(pip) : pip \in S}, n - 1)

AllPips == DOMAIN env.pips \cup UNION {RequiresOf(pip) : pip \in DOMAIN env.pips}

ReachablePips == ReachableIn(Range(env.names), Cardinality(AllPips))

\* No package requires itself, directly or through others
AcyclicRequires ==
    \A pip \in AllPips : pip \notin ReachableIn(RequiresOf(pip), Cardinality(AllPips))

\* C15: PipScanner.scan terminates for every Requires graph, cycles and
\* self-requirements included, and its result holds exactly one entry for
\* each package reachable from the packages of the manifest.
C15_PipScanTerminates ==
    pc = "pip_scanned" =>
        /\ ~last.raised
        /\ Range(Keys(last.lics)) = ReachablePips
        /\ Len(last.lics) = Cardinality(ReachablePips)

\* What holds instead: on an acyclic graph scan ends without error with one
\* entry for each reachable package, and on a graph with a reachable cycle
\* the recursion never ends (Python raises RecursionError).
C15_PipScanOnAcyclicGraphs ==
    pc = "pip_scanned" =>
        IF AcyclicRequires
        THEN /\ ~last.raised
             /\ Range(Keys(last.lics)) = ReachablePips
             /\ Len(last.lics) = Cardinality(ReachablePips)
        ELSE (\E pip \in ReachablePips : pip \in ReachableIn(RequiresOf(pip), Cardinality(AllPips)))
                => last.raised

\* C16: on an acyclic graph the x-usedBy list of each package of the result
\* holds every package of the result that lists it in its Requires.
C16_PipUsedByComplete ==
    (pc = "pip_scanned" /\ AcyclicRequires /\ ~last.raised) =>
        \A D \in Range(Keys(last.lics)), A \in Range(Keys(last.lics)) :
            D \in RequiresOf(A) => UsedByModule(last.lics, D, A)

\* What holds instead: each package required by another has in its x-usedBy
\* exactly the one package from whose Requires list it was reached first.
C16_PipUsedByFirstVisitor ==
    (pc = "pip_scanned" /\ ~last.raised) =>
        \A i \in DOMAIN last.lics :
            LET lic == last.lics[i]
            IN IF lic.x_usedBy = Absent
               THEN lic.moduleName \in Range(env.names)
               ELSE /\ Len(lic.x_usedBy[1]) = 1
                    /\ lic.moduleName \in RequiresOf(lic.x_usedBy[1][1])

----------------------------------------------------------------------------
(* Further claims about _GitHubAPI, checked under SpecGH *)

\* The URL names an organization whose listing is among those cached
OrganizationIn(url, cachedOrgs) ==
    /\ parse_url(url).organization # None
    /\ parse_url(url).organization[1] \in cachedOrgs

\* C17: a listing once cached stays cached and unchanged; a lookup for an
\* organization whose listing is cached makes no request and leaves the
\* budget as it is, and answers from the cached listing when the URL names a
\* project; a lookup whose repository requests all fail caches nothing.
C17_CachedPerOrganization ==
    [][ /\ \A org \in DOMAIN github.cached :
              /\ org \in DOMAIN github'.cached
              /\ github'.cached[org] = github.cached[org]
        /\ (last'.op = "lookup" /\ OrganizationIn(last'.url, DOMAIN github.cached)) =>
              /\ last'.requests = 0
              /\ github'.remaining = github.remaining
              /\ parse_url(last'.url).project # None => last'.fromCache
        /\ (last'.op = "lookup" /\ last'.answers.orgs = None /\ last'.answers.users = None) =>
              github'.cached = github.cached
        /\ (last'.op = "lookup" /\ DOMAIN github'.cached # DOMAIN github.cached) =>
              /\ last'.requests > 0
              /\ \E listing \in {last'.answers.orgs, last'.answers.users} \ {None} :
                    github'.cached = (parse_url(last'.url).organization[1] :> listing[1])
                                        @@ github.cached
      ]_vars

\* C17 witness: with calls left in the budget a lookup was answered from the
\* listing an earlier lookup had fetched, without a request and without the
\* budget going down.
C17_WitnessAnsweredFromCache ==
    /\ last.op = "lookup"
    /\ OrganizationIn(last.url, last.cachedBefore)
    /\ last.remainingBefore > 0
    /\ github.remaining = last.remainingBefore
    /\ last.requests = 0
    /\ last.val = Some(s_MIT)
    /\ net.repos = 1


\* The last operation was a lookup of a URL whose host is not github.com
OtherHostLookup ==
    /\ last.op = "lookup"
    /\ last.url # None
    /\ parse_url(last.url).host # Some(s_github_com)

\* C19: a lookup of a URL whose host is not github.com gives no answer and
\* makes no request, whatever the cache holds (stated for the URLs that name
\* a project; the others raise in lookup before the host is looked at).
C19_OtherHostNoAnswer ==
    (OtherHostLookup /\ parse_url(last.url).project # None) =>
        /\ ~last.raised
        /\ last.val = None
        /\ last.requests = 0
        /\ last.rateRequests = 0

\* What the code does instead: a lookup of a URL whose host is not
\* github.com makes no request, and it gives no answer unless the listing of
\* the URL's organization is cached.
C19_OtherHostMakesNoRequest ==
    OtherHostLookup =>
        /\ last.requests = 0
        /\ last.rateRequests = 0
        /\ ~OrganizationIn(last.url, last.cachedBefore) =>
              (parse_url(last.url).project # None => ~last.raised /\ last.val = None)

----------------------------------------------------------------------------
(* A further claim about DirectoryBasedScanner.scan, checked under Spec *)

\* C18: the assertion of _process_prereq holds in every scan of a
\* directory-based scanner, so such a scan never raises once it has its
\* project list.
C18_AssertionHolds ==
    (/\ last.op = "scan"
     /\ last.scanner \in {"kss", "swift"}
     /\ last.should) => ~last.raised

=============================================================================
